---- MODULE Spec2Model ----
(***************************************************************************)
(* Model of the conversational scheduling assistant (the chat page and    *)
(* the mock scheduling routes it calls).  Texts are sequences of          *)
(* one-character strings, so that case folding, substring search, the     *)
(* regular expressions and trimming are computed as the code computes     *)
(* them.                                                                   *)
(***************************************************************************)
EXTENDS Integers, Sequences, FiniteSets, TLC

----------------------------------------------------------------------------
(* Characters and strings                                                  *)

UpperChars ==
  <<"A", "B", "C", "D", "E", "F", "G", "H", "I", "J", "K", "L", "M",
    "N", "O", "P", "Q", "R", "S", "T", "U", "V", "W", "X", "Y", "Z">>

LowerChars ==
  <<"a", "b", "c", "d", "e", "f", "g", "h", "i", "j", "k", "l", "m",
    "n", "o", "p", "q", "r", "s", "t", "u", "v", "w", "x", "y", "z">>

DigitChars == <<"0", "1", "2", "3", "4", "5", "6", "7", "8", "9">>

Range(s) == {s[i] : i \in 1..Len(s)}

IsDigit(c) == c \in Range(DigitChars)

\* \w of the regular expressions
IsWordChar(c) ==
  c \in Range(UpperChars) \cup Range(LowerChars) \cup Range(DigitChars) \cup {"_"}

\* white space as String.prototype.trim strips it
IsSpace(c) == c \in {" ", "\t", "\n", "\r"}

\* the value of a JavaScript null held in a string-typed field
NullText == <<"null">>

\* !value for a string-or-null field: null and "" are both falsy
Falsy(t) == t = NullText \/ t = <<>>

ToLowerChar(c) ==
  IF c \in Range(UpperChars)
  THEN LowerChars[CHOOSE i \in 1..Len(UpperChars) : UpperChars[i] = c]
  ELSE c

toLowerCase(s) == [i \in 1..Len(s) |-> ToLowerChar(s[i])]

includes(s, pat) ==
  \E i \in 0..(Len(s) - Len(pat)) : SubSeq(s, i + 1, i + Len(pat)) = pat

RECURSIVE trimStart(_)
trimStart(s) ==
  IF s # <<>> /\ IsSpace(Head(s)) THEN trimStart(Tail(s)) ELSE s

RECURSIVE trimEnd(_)
trimEnd(s) ==
  IF s # <<>> /\ IsSpace(s[Len(s)]) THEN trimEnd(SubSeq(s, 1, Len(s) - 1)) ELSE s

trim(s) == trimEnd(trimStart(s))

\* \b between positions i and i+1 of s (i = 0 is the start, i = Len(s) the end)
WordBoundary(s, i) ==
  LET before == i >= 1 /\ i <= Len(s) /\ IsWordChar(s[i])
      after  == i + 1 >= 1 /\ i + 1 <= Len(s) /\ IsWordChar(s[i + 1])
  IN  before # after

padStart5(t) == IF Len(t) >= 5 THEN t ELSE <<"0">> \o t

\* /\b\d{4}-\d{2}-\d{2}\b/ matching at offset i (the match is s[i+1 .. i+10])
IsoDateAt(s, i) ==
  /\ i + 10 <= Len(s)
  /\ \A k \in {1, 2, 3, 4, 6, 7, 9, 10} : IsDigit(s[i + k])
  /\ s[i + 5] = "-"
  /\ s[i + 8] = "-"
  /\ WordBoundary(s, i)
  /\ WordBoundary(s, i + 10)

\* /\b([01]?\d|2[0-3]):[0-5]\d\b/ matching at offset i: the length of the
\* match (4 or 5), or 0 when there is none
TimeLenAt(s, i) ==
  LET two ==
        /\ i + 5 <= Len(s)
        /\ \/ s[i + 1] \in {"0", "1"} /\ IsDigit(s[i + 2])
           \/ s[i + 1] = "2" /\ s[i + 2] \in {"0", "1", "2", "3"}
        /\ s[i + 3] = ":"
        /\ s[i + 4] \in {"0", "1", "2", "3", "4", "5"}
        /\ IsDigit(s[i + 5])
        /\ WordBoundary(s, i)
        /\ WordBoundary(s, i + 5)
      one ==
        /\ i + 4 <= Len(s)
        /\ IsDigit(s[i + 1])
        /\ s[i + 2] = ":"
        /\ s[i + 3] \in {"0", "1", "2", "3", "4", "5"}
        /\ IsDigit(s[i + 4])
        /\ WordBoundary(s, i)
        /\ WordBoundary(s, i + 4)
  IN  IF two THEN 5 ELSE IF one THEN 4 ELSE 0

\* input.match(timeRegex)?.[0], or NullText
matchTime(s) ==
  LET hits == {i \in 0..Len(s) : TimeLenAt(s, i) > 0}
  IN  IF hits = {} THEN NullText
      ELSE LET i == CHOOSE h \in hits : \A g \in hits : h <= g
           IN  SubSeq(s, i + 1, i + TimeLenAt(s, i))

\* input.trim().match(/^\d+$/)
IsNumeric(s) == s # <<>> /\ \A i \in 1..Len(s) : IsDigit(s[i])

DigitValue(c) == (CHOOSE i \in 1..Len(DigitChars) : DigitChars[i] = c) - 1

\* Number(digits); the inputs are short, so the value stays a small integer
RECURSIVE NumberOf(_)
NumberOf(s) ==
  IF s = <<>> THEN 0
  ELSE NumberOf(SubSeq(s, 1, Len(s) - 1)) * 10 + DigitValue(s[Len(s)])

----------------------------------------------------------------------------
(* The catalog, the conversation state and the extractors                  *)

APPOINTMENT_TYPES == <<"consultation", "followup", "physical", "specialist">>

\* a JavaScript null in the intent or appointmentType field
Null == "null"

\* selectedSlot = null
NullSlot == [start_time |-> NullText, end_time |-> NullText, available |-> FALSE]

createInitialState ==
  [intent          |-> Null,
   step            |-> "askIntent",
   appointmentType |-> Null,
   date            |-> NullText,
   slots           |-> <<>>,
   selectedSlot    |-> NullSlot,
   patientName     |-> NullText,
   patientEmail    |-> NullText,
   patientPhone    |-> NullText,
   reason          |-> NullText,
   bookingId       |-> NullText]

\* detectIntent that looks for the cancel token first
detectIntentCancelFirst(input) ==
  LET text == toLowerCase(input)
  IN  IF includes(text, <<"c", "a", "n", "c", "e", "l">>) THEN "cancel"
      ELSE IF includes(text, <<"r", "e", "s", "c", "h", "e", "d", "u", "l">>) THEN "reschedule"
      ELSE "book"

detectIntent(input) ==
  LET text == toLowerCase(input)
  IN  IF includes(text, <<"r", "e", "s", "c", "h", "e", "d", "u", "l">>) THEN "reschedule"
      ELSE IF includes(text, <<"c", "a", "n", "c", "e", "l">>) THEN "cancel"
      ELSE "book"

\* detectAppointmentType that falls back to the general consultation
detectAppointmentTypeDefault(input) ==
  LET text == toLowerCase(input)
  IN  IF \/ includes(text, <<"f", "o", "l", "l", "o", "w">>)
         \/ includes(text, <<"f", "o", "l", "l", "o", "w", "-", "u", "p">>)
      THEN "followup"
      ELSE IF includes(text, <<"p", "h", "y", "s", "i", "c", "a", "l">>)
      THEN "physical"
      ELSE IF includes(text, <<"s", "p", "e", "c", "i", "a", "l", "i", "s", "t">>)
      THEN "specialist"
      ELSE "consultation"

detectAppointmentType(input) ==
  LET text == toLowerCase(input)
  IN  IF \/ includes(text, <<"f", "o", "l", "l", "o", "w">>)
         \/ includes(text, <<"f", "o", "l", "l", "o", "w", "-", "u", "p">>)
      THEN "followup"
      ELSE IF includes(text, <<"p", "h", "y", "s", "i", "c", "a", "l">>)
      THEN "physical"
      ELSE IF includes(text, <<"s", "p", "e", "c", "i", "a", "l", "i", "s", "t">>)
      THEN "specialist"
      ELSE IF \/ includes(text, <<"c", "o", "n", "s", "u", "l", "t">>)
              \/ includes(text, <<"g", "e", "n", "e", "r", "a", "l">>)
              \/ includes(text, <<"c", "h", "e", "c", "k", "u", "p">>)
              \/ includes(text, <<"c", "h", "e", "c", "k", "-", "u", "p">>)
      THEN "consultation"
      ELSE Null

\* new Date() at the time of the turn, as toISOString().slice(0, 10) gives it,
\* and the same for the day after
TodayISO == <<"2", "0", "2", "4", "-", "0", "1", "-", "1", "5">>

TomorrowISO == <<"2", "0", "2", "4", "-", "0", "1", "-", "1", "6">>

normalizeDateFromInput(input) ==
  LET hits == {i \in 0..Len(input) : IsoDateAt(input, i)}
      text == toLowerCase(input)
  IN  IF hits # {}
      THEN LET i == CHOOSE h \in hits : \A g \in hits : h <= g
           IN  SubSeq(input, i + 1, i + 10)
      ELSE IF includes(text, <<"t", "o", "d", "a", "y">>) THEN TodayISO
      ELSE IF includes(text, <<"t", "o", "m", "o", "r", "r", "o", "w">>) THEN TomorrowISO
      ELSE NullText

\* FindSlot that does not look at the available flag
FindSlotAnyAvailability(slots, time) ==
  LET hits == {i \in 1..Len(slots) : slots[i].start_time = time}
  IN  IF hits = {} THEN NullSlot
      ELSE slots[CHOOSE h \in hits : \A g \in hits : h <= g]

\* slots.find(pred) ?? null
FindSlot(slots, time) ==
  LET hits == {i \in 1..Len(slots) : slots[i].start_time = time /\ slots[i].available}
  IN  IF hits = {} THEN NullSlot
      ELSE slots[CHOOSE h \in hits : \A g \in hits : h <= g]

parseSlotSelection(input, slots) ==
  LET t == trim(input)
      index == NumberOf(t) - 1
      timeMatch == matchTime(input)
  IN  IF Len(slots) = 0 THEN NullSlot
      ELSE IF IsNumeric(t) /\ index >= 0 /\ index < Len(slots) THEN slots[index + 1]
      ELSE IF timeMatch # NullText THEN FindSlot(slots, padStart5(timeMatch))
      ELSE NullSlot

----------------------------------------------------------------------------
(* What a handler produces: the last state it wrote with setState (if it   *)
(* wrote one), the agent messages it appended, and the remote call it is   *)
(* suspended on (if any), with the variables its continuation captured.    *)

\* an agent message: its kind, and the booking identifiers it shows
Msg(kind, id, prev) == [kind |-> kind, id |-> id, prev |-> prev]

Say(kind) == Msg(kind, NullText, NullText)

\* a suspended handler: the call it awaits, its local currentState and startTime
Call(op, cs, startTime) == [op |-> op, cs |-> cs, startTime |-> startTime]

NoCall == Call("none", createInitialState, NullText)

Outcome(wrote, st, msgs, call) ==
  [wrote |-> wrote, state |-> st, msgs |-> msgs, call |-> call]

\* BookingFieldsMissing that forgets the selected slot
BookingFieldsMissingNoSlot(cs) ==
  \/ cs.appointmentType = Null
  \/ Falsy(cs.date)
  \/ Falsy(cs.patientName)
  \/ Falsy(cs.patientEmail)
  \/ Falsy(cs.patientPhone)

\* the check of every required field before the book call
BookingFieldsMissing(cs) ==
  \/ cs.appointmentType = Null
  \/ Falsy(cs.date)
  \/ cs.selectedSlot = NullSlot
  \/ Falsy(cs.patientName)
  \/ Falsy(cs.patientEmail)
  \/ Falsy(cs.patientPhone)

\* the steps of handleBookingFlow, given what the extractors found in the turn
BookingSteps(cs0, userText, inferredType, date, slot) ==
  IF cs0.appointmentType = Null THEN
    IF inferredType # Null
    THEN Outcome(TRUE, [cs0 EXCEPT !.appointmentType = inferredType, !.step = "askDate"],
                 <<Say("askDate")>>, NoCall)
    ELSE Outcome(TRUE, [cs0 EXCEPT !.step = "askType"], <<Say("askType")>>, NoCall)
  ELSE IF Falsy(cs0.date) THEN
    IF Falsy(date)
    THEN Outcome(FALSE, cs0, <<Say("badDate")>>, NoCall)
    ELSE IF cs0.appointmentType = Null
    THEN Outcome(TRUE, [cs0 EXCEPT !.date = date, !.step = "askType"],
                 <<Say("missingType")>>, NoCall)
    ELSE Outcome(TRUE, [cs0 EXCEPT !.date = date, !.step = "fetchingSlots"], <<>>,
                 Call("availability", [cs0 EXCEPT !.date = date, !.step = "fetchingSlots"],
                      NullText))
  ELSE IF cs0.selectedSlot = NullSlot /\ Len(cs0.slots) # 0 THEN
    IF slot = NullSlot
    THEN Outcome(FALSE, cs0, <<Say("badSlot")>>, NoCall)
    ELSE Outcome(TRUE, [cs0 EXCEPT !.selectedSlot = slot, !.step = "askName"],
                 <<Say("askName")>>, NoCall)
  ELSE IF Falsy(cs0.patientName) THEN
    Outcome(TRUE, [cs0 EXCEPT !.patientName = trim(userText), !.step = "askEmail"],
            <<Say("askEmail")>>, NoCall)
  ELSE IF Falsy(cs0.patientEmail) THEN
    Outcome(TRUE, [cs0 EXCEPT !.patientEmail = trim(userText), !.step = "askPhone"],
            <<Say("askPhone")>>, NoCall)
  ELSE IF Falsy(cs0.patientPhone) THEN
    Outcome(TRUE, [cs0 EXCEPT !.patientPhone = trim(userText), !.step = "askReason"],
            <<Say("askReason")>>, NoCall)
  ELSE IF Falsy(cs0.reason) THEN
    IF BookingFieldsMissing(cs0)
    THEN Outcome(TRUE, createInitialState, <<Say("missingInfo")>>, NoCall)
    ELSE Outcome(TRUE, [cs0 EXCEPT !.reason = trim(userText), !.step = "confirmingBooking"],
                 <<>>,
                 Call("book",
                      [cs0 EXCEPT !.reason = trim(userText), !.step = "confirmingBooking"],
                      NullText))
  ELSE Outcome(FALSE, cs0, <<>>, NoCall)

handleBookingFlow(state0, userText) ==
  BookingSteps(IF state0.intent = Null THEN [state0 EXCEPT !.intent = "book"] ELSE state0,
               userText,
               detectAppointmentType(userText),
               normalizeDateFromInput(userText),
               parseSlotSelection(userText, state0.slots))

\* RescheduleSteps that resets the conversation when no time is found, as the
\* missing-information branch does
RescheduleStepsBadTimeResets(state0, id, date, timeMatch) ==
  IF Falsy(state0.bookingId) /\ state0.step = "askBookingIdForReschedule" THEN
    IF Falsy(id)
    THEN Outcome(FALSE, state0, <<Say("askBookingIdAgain")>>, NoCall)
    ELSE Outcome(TRUE, [state0 EXCEPT !.bookingId = id, !.step = "askNewDateForReschedule"],
                 <<Say("askNewDate")>>, NoCall)
  ELSE IF Falsy(state0.date) /\ state0.step = "askNewDateForReschedule" THEN
    IF Falsy(date)
    THEN Outcome(FALSE, state0, <<Say("badDate")>>, NoCall)
    ELSE Outcome(TRUE, [state0 EXCEPT !.date = date, !.step = "askNewTimeForReschedule"],
                 <<Say("askNewTime")>>, NoCall)
  ELSE IF ~Falsy(state0.date) /\ state0.step = "askNewTimeForReschedule" THEN
    IF timeMatch = NullText
    THEN Outcome(TRUE, createInitialState, <<Say("badTime")>>, NoCall)
    ELSE IF Falsy(state0.bookingId) \/ Falsy(state0.date)
    THEN Outcome(TRUE, createInitialState, <<Say("missingInfo")>>, NoCall)
    ELSE Outcome(TRUE, [state0 EXCEPT !.step = "rescheduling"], <<>>,
                 Call("reschedule", [state0 EXCEPT !.step = "rescheduling"],
                      padStart5(timeMatch)))
  ELSE Outcome(FALSE, state0, <<>>, NoCall)

\* RescheduleSteps whose first turn moves on without storing the booking id
RescheduleStepsDropsId(state0, id, date, timeMatch) ==
  IF Falsy(state0.bookingId) /\ state0.step = "askBookingIdForReschedule" THEN
    IF Falsy(id)
    THEN Outcome(FALSE, state0, <<Say("askBookingIdAgain")>>, NoCall)
    ELSE Outcome(TRUE, [state0 EXCEPT !.step = "askNewDateForReschedule"],
                 <<Say("askNewDate")>>, NoCall)
  ELSE IF Falsy(state0.date) /\ state0.step = "askNewDateForReschedule" THEN
    IF Falsy(date)
    THEN Outcome(FALSE, state0, <<Say("badDate")>>, NoCall)
    ELSE Outcome(TRUE, [state0 EXCEPT !.date = date, !.step = "askNewTimeForReschedule"],
                 <<Say("askNewTime")>>, NoCall)
  ELSE IF ~Falsy(state0.date) /\ state0.step = "askNewTimeForReschedule" THEN
    IF timeMatch = NullText
    THEN Outcome(FALSE, state0, <<Say("badTime")>>, NoCall)
    ELSE IF Falsy(state0.bookingId) \/ Falsy(state0.date)
    THEN Outcome(TRUE, createInitialState, <<Say("missingInfo")>>, NoCall)
    ELSE Outcome(TRUE, [state0 EXCEPT !.step = "rescheduling"], <<>>,
                 Call("reschedule", [state0 EXCEPT !.step = "rescheduling"],
                      padStart5(timeMatch)))
  ELSE Outcome(FALSE, state0, <<>>, NoCall)

\* the steps of handleRescheduleFlow, given the trimmed text, the date and the
\* time literal found in the turn
RescheduleSteps(state0, id, date, timeMatch) ==
  IF Falsy(state0.bookingId) /\ state0.step = "askBookingIdForReschedule" THEN
    IF Falsy(id)
    THEN Outcome(FALSE, state0, <<Say("askBookingIdAgain")>>, NoCall)
    ELSE Outcome(TRUE, [state0 EXCEPT !.bookingId = id, !.step = "askNewDateForReschedule"],
                 <<Say("askNewDate")>>, NoCall)
  ELSE IF Falsy(state0.date) /\ state0.step = "askNewDateForReschedule" THEN
    IF Falsy(date)
    THEN Outcome(FALSE, state0, <<Say("badDate")>>, NoCall)
    ELSE Outcome(TRUE, [state0 EXCEPT !.date = date, !.step = "askNewTimeForReschedule"],
                 <<Say("askNewTime")>>, NoCall)
  ELSE IF ~Falsy(state0.date) /\ state0.step = "askNewTimeForReschedule" THEN
    IF timeMatch = NullText
    THEN Outcome(FALSE, state0, <<Say("badTime")>>, NoCall)
    ELSE IF Falsy(state0.bookingId) \/ Falsy(state0.date)
    THEN Outcome(TRUE, createInitialState, <<Say("missingInfo")>>, NoCall)
    ELSE Outcome(TRUE, [state0 EXCEPT !.step = "rescheduling"], <<>>,
                 Call("reschedule", [state0 EXCEPT !.step = "rescheduling"],
                      padStart5(timeMatch)))
  ELSE Outcome(FALSE, state0, <<>>, NoCall)

handleRescheduleFlow(state0, userText) ==
  RescheduleSteps(state0, trim(userText), normalizeDateFromInput(userText),
                  matchTime(userText))

\* CancelReason that compares the text with the keyword as typed
CancelReasonCaseSensitive(userText) ==
  IF trim(userText) = <<"s", "k", "i", "p">> THEN NullText ELSE trim(userText)

\* userText.trim().toLowerCase() === "skip" ? null : userText.trim()
CancelReason(userText) ==
  IF toLowerCase(trim(userText)) = <<"s", "k", "i", "p">> THEN NullText ELSE trim(userText)

\* CancelSteps whose reason turn also stores the text as the booking id
CancelStepsOverwritesId(state0, id, reason) ==
  IF Falsy(state0.bookingId) /\ state0.step = "askBookingIdForCancel" THEN
    IF Falsy(id)
    THEN Outcome(FALSE, state0, <<Say("askBookingIdAgain")>>, NoCall)
    ELSE Outcome(TRUE, [state0 EXCEPT !.bookingId = id, !.step = "askReasonForCancel"],
                 <<Say("askCancelReason")>>, NoCall)
  ELSE IF state0.step = "askReasonForCancel" THEN
    IF Falsy(state0.bookingId)
    THEN Outcome(TRUE, createInitialState, <<Say("missingInfo")>>, NoCall)
    ELSE Outcome(TRUE,
                 [state0 EXCEPT !.bookingId = id, !.reason = reason, !.step = "cancelling"],
                 <<>>,
                 Call("cancel",
                      [state0 EXCEPT !.bookingId = id, !.reason = reason, !.step = "cancelling"],
                      NullText))
  ELSE Outcome(FALSE, state0, <<>>, NoCall)

\* the steps of handleCancelFlow, given the trimmed text and the reason
CancelSteps(state0, id, reason) ==
  IF Falsy(state0.bookingId) /\ state0.step = "askBookingIdForCancel" THEN
    IF Falsy(id)
    THEN Outcome(FALSE, state0, <<Say("askBookingIdAgain")>>, NoCall)
    ELSE Outcome(TRUE, [state0 EXCEPT !.bookingId = id, !.step = "askReasonForCancel"],
                 <<Say("askCancelReason")>>, NoCall)
  ELSE IF state0.step = "askReasonForCancel" THEN
    IF Falsy(state0.bookingId)
    THEN Outcome(TRUE, createInitialState, <<Say("missingInfo")>>, NoCall)
    ELSE Outcome(TRUE, [state0 EXCEPT !.reason = reason, !.step = "cancelling"], <<>>,
                 Call("cancel", [state0 EXCEPT !.reason = reason, !.step = "cancelling"],
                      NullText))
  ELSE Outcome(FALSE, state0, <<>>, NoCall)

handleCancelFlow(state0, userText) ==
  CancelSteps(state0, trim(userText), CancelReason(userText))

----------------------------------------------------------------------------
(* The scheduling service: the four routes                                 *)

\* a response: the HTTP status is ok or not, and the fields the page reads
Result(ok, slots, id, prev) ==
  [ok |-> ok, slots |-> slots, booking_id |-> id, previous_booking_id |-> prev]

Failed == Result(FALSE, <<>>, NullText, NullText)

TwoDigits(n) == <<DigitChars[(n \div 10) + 1], DigitChars[(n % 10) + 1]>>

\* `${String(h).padStart(2, "0")}:${String(m).padStart(2, "0")}` of a minute of the day
TimeText(minutes) == TwoDigits(minutes \div 60) \o <<":">> \o TwoDigits(minutes % 60)

DurationMinutes(type) ==
  CASE type = "consultation" -> 30
    [] type = "followup" -> 15
    [] type = "physical" -> 45
    [] type = "specialist" -> 60

\* the number of slots of a response in this model (the route returns
\* floor(480 / duration) of them)
SlotsPerResponse == 6

\* which slots a response marks available.  The route derives the flag from a
\* hash of date, type and index; the page treats it as opaque, and so does
\* this model: any of these patterns may come back.
AvailabilityPatterns == {"none", "all", "even"}

IsAvailable(pattern, i) ==
  CASE pattern = "none" -> FALSE
    [] pattern = "all" -> TRUE
    [] pattern = "even" -> i % 2 = 0

\* the slots generateSlots lays out from 09:00 on, with the given flags
generateSlots(type, pattern) ==
  [i \in 1..SlotsPerResponse |->
     [start_time |-> TimeText(9 * 60 + (i - 1) * DurationMinutes(type)),
      end_time   |-> TimeText(9 * 60 + i * DurationMinutes(type)),
      available  |-> IsAvailable(pattern, i)]]

\* /^\d{4}-\d{2}-\d{2}$/ and a date that new Date() can read
isValidDate(value) ==
  /\ Len(value) = 10
  /\ \A k \in {1, 2, 3, 4, 6, 7, 9, 10} : IsDigit(value[k])
  /\ value[5] = "-"
  /\ value[8] = "-"
  /\ NumberOf(SubSeq(value, 6, 7)) \in 1..12
  /\ NumberOf(SubSeq(value, 9, 10)) \in 1..31

\* /^([01]\d|2[0-3]):[0-5]\d$/
isValidTime(value) ==
  /\ Len(value) = 5
  /\ \/ value[1] \in {"0", "1"} /\ IsDigit(value[2])
     \/ value[1] = "2" /\ value[2] \in {"0", "1", "2", "3"}
  /\ value[3] = ":"
  /\ value[4] \in {"0", "1", "2", "3", "4", "5"}
  /\ IsDigit(value[5])

\* text.replace(/c/g, "")
RECURSIVE RemoveAll(_, _)
RemoveAll(t, c) ==
  IF t = <<>> THEN <<>>
  ELSE IF Head(t) = c THEN RemoveAll(Tail(t), c)
  ELSE <<Head(t)>> \o RemoveAll(Tail(t), c)

\* text.replace(c, ""): the first occurrence only
RECURSIVE RemoveFirst(_, _)
RemoveFirst(t, c) ==
  IF t = <<>> THEN <<>>
  ELSE IF Head(t) = c THEN Tail(t)
  ELSE <<Head(t)>> \o RemoveFirst(Tail(t), c)

\* `APPT-${date.replace(/-/g, "")}-${start_time.replace(":", "")}`
MockBookingId(date, startTime) ==
  <<"A", "P", "P", "T", "-">> \o RemoveAll(date, "-") \o <<"-">> \o RemoveFirst(startTime, ":")

AvailabilityRoute(date, type, pattern) ==
  IF Falsy(date) \/ type = Null \/ ~isValidDate(date) THEN Failed
  ELSE Result(TRUE, generateSlots(type, pattern), NullText, NullText)

BookRoute(body) ==
  IF \/ body.appointment_type = Null
     \/ Falsy(body.date)
     \/ Falsy(body.start_time)
     \/ Falsy(body.patient.name)
     \/ Falsy(body.patient.email)
     \/ Falsy(body.patient.phone)
     \/ ~isValidDate(body.date)
     \/ ~isValidTime(body.start_time)
  THEN Failed
  ELSE Result(TRUE, <<>>, MockBookingId(body.date, body.start_time), NullText)

RescheduleRoute(bookingId, date, startTime) ==
  IF \/ Falsy(bookingId)
     \/ Falsy(date)
     \/ Falsy(startTime)
     \/ ~isValidDate(date)
     \/ ~isValidTime(startTime)
  THEN Failed
  ELSE Result(TRUE, <<>>, MockBookingId(date, startTime), bookingId)

CancelRoute(bookingId) ==
  IF Falsy(bookingId) THEN Failed
  ELSE Result(TRUE, <<>>, bookingId, NullText)

\* fetchAvailability: the query parameters sent for the handler's currentState
AvailabilityParams(cs) == [date |-> cs.date, appointment_type |-> cs.appointmentType]

\* BookBody that sends the end of the slot as its start
BookBodyEndTime(cs) ==
  [appointment_type |-> cs.appointmentType,
   date             |-> cs.date,
   start_time       |-> cs.selectedSlot.end_time,
   patient          |-> [name  |-> cs.patientName,
                         email |-> cs.patientEmail,
                         phone |-> cs.patientPhone],
   reason           |-> cs.reason]

\* bookAppointment: the JSON body posted for the handler's currentState
BookBody(cs) ==
  [appointment_type |-> cs.appointmentType,
   date             |-> cs.date,
   start_time       |-> cs.selectedSlot.start_time,
   patient          |-> [name  |-> cs.patientName,
                         email |-> cs.patientEmail,
                         phone |-> cs.patientPhone],
   reason           |-> cs.reason]

\* the response to a suspended call
Response(call, pattern) ==
  CASE call.op = "availability" ->
         AvailabilityRoute(AvailabilityParams(call.cs).date,
                           AvailabilityParams(call.cs).appointment_type, pattern)
    [] call.op = "book" -> BookRoute(BookBody(call.cs))
    [] call.op = "reschedule" ->
         RescheduleRoute(call.cs.bookingId, call.cs.date, call.startTime)
    [] call.op = "cancel" -> CancelRoute(call.cs.bookingId)

----------------------------------------------------------------------------
(* The page: one conversation                                              *)

VARIABLES
  state,      \* the ConversationState of the last render
  isBusy,     \* the busy flag
  reply,      \* the agent messages appended since the last accepted user turn
  inflight,   \* the handlers suspended on a remote call, oldest first
  lastFetch,  \* the outcome of the latest availability query (history)
  tally,      \* the turns accepted and the calls issued so far (history)
  probe       \* an extractor called on its own: its arguments and its answer

vars == <<state, isBusy, reply, inflight, lastFetch, tally, probe>>

\* what the user may type into the input box and submit
Inputs ==
  { <<"B", "o", "o", "k", " ", "a", " ", "p", "h", "y", "s", "i", "c", "a", "l", " ", "e", "x", "a", "m", " ", "t", "o", "m", "o", "r", "r", "o", "w">>,
    <<"R", "E", "S", "C", "H", "E", "D", "U", "L", "E", " ", "t", "o", " ", "2", "0", "2", "4", "-", "0", "3", "-", "0", "1", " ", "a", "t", " ", "9", ":", "4", "5">>,
    <<"c", "a", "n", "c", "e", "l", " ", "m", "y", " ", "a", "p", "p", "o", "i", "n", "t", "m", "e", "n", "t">>,
    <<"C", "a", "n", "c", "e", "l", " ", "A", "P", "P", "T", "-", "2", "0", "2", "4", "0", "1", "1", "5", "-", "1", "0", "0", "0">>,
    <<"2">>,
    <<" ", "S", "k", "i", "p", " ">>,
    <<" ", " ", " ">> }

\* slots.filter((slot) => slot.available)
RECURSIVE FilterAvailable(_)
FilterAvailable(slots) ==
  IF slots = <<>> THEN <<>>
  ELSE IF Head(slots).available THEN <<Head(slots)>> \o FilterAvailable(Tail(slots))
  ELSE FilterAvailable(Tail(slots))

\* the number of slots offered: slice(0, 5)
MaxOffered == 5

\* Offered without the filter: the first slots of the response, available or not
OfferedUnfiltered(slots) ==
  SubSeq(slots, 1, IF Len(slots) < MaxOffered THEN Len(slots) ELSE MaxOffered)

Offered(slots) ==
  LET available == FilterAvailable(slots)
  IN  SubSeq(available, 1, IF Len(available) < MaxOffered THEN Len(available) ELSE MaxOffered)

\* handleSubmit, first turn of a flow: the state it writes before the flow's
\* handler runs is what stays unless the handler writes one of its own
AfterSetState(written, o) ==
  IF o.wrote THEN o ELSE Outcome(TRUE, written, o.msgs, o.call)

\* StartFlow with the reschedule branch entering the cancel flow's first step
StartFlowWrongStep(st, trimmed, intent) ==
  CASE intent = "book" ->
         AfterSetState([createInitialState EXCEPT !.intent = intent],
                       handleBookingFlow(st, trimmed))
    [] intent = "reschedule" ->
         Outcome(TRUE, [createInitialState EXCEPT !.intent = intent,
                                                  !.step = "askBookingIdForCancel"],
                 <<Say("askBookingId")>>, NoCall)
    [] intent = "cancel" ->
         Outcome(TRUE, [createInitialState EXCEPT !.intent = intent,
                                                  !.step = "askBookingIdForCancel"],
                 <<Say("askBookingId")>>, NoCall)

StartFlow(st, trimmed, intent) ==
  CASE intent = "book" ->
         AfterSetState([createInitialState EXCEPT !.intent = intent],
                       handleBookingFlow(st, trimmed))
    [] intent = "reschedule" ->
         Outcome(TRUE, [createInitialState EXCEPT !.intent = intent,
                                                  !.step = "askBookingIdForReschedule"],
                 <<Say("askBookingId")>>, NoCall)
    [] intent = "cancel" ->
         Outcome(TRUE, [createInitialState EXCEPT !.intent = intent,
                                                  !.step = "askBookingIdForCancel"],
                 <<Say("askBookingId")>>, NoCall)

\* handleSubmit, a later turn: which flow handler the turn is routed to
Route(st) ==
  IF st.intent = "book" \/ st.step = "askType" \/ st.step = "askDate" THEN "book"
  ELSE IF \/ st.intent = "reschedule"
          \/ st.step = "askBookingIdForReschedule"
          \/ st.step = "askNewDateForReschedule"
          \/ st.step = "askNewTimeForReschedule"
  THEN "reschedule"
  ELSE IF \/ st.intent = "cancel"
          \/ st.step = "askBookingIdForCancel"
          \/ st.step = "askReasonForCancel"
  THEN "cancel"
  ELSE "book"

Handle(flow, st, trimmed) ==
  CASE flow = "book" -> handleBookingFlow(st, trimmed)
    [] flow = "reschedule" -> handleRescheduleFlow(st, trimmed)
    [] flow = "cancel" -> handleCancelFlow(st, trimmed)

\* Classifies that also re-classifies while the appointment type is unresolved
ClassifiesUntilTyped(st) == st.step = "idle" \/ st.step = "askIntent" \/ st.step = "askType"

\* whether handleSubmit classifies the turn for intent
Classifies(st) == st.step = "idle" \/ st.step = "askIntent"

\* the dispatch of handleSubmit for an accepted turn
Dispatch(st, trimmed) ==
  IF Classifies(st)
  THEN StartFlow(st, trimmed, detectIntent(trimmed))
  ELSE Handle(Route(st), st, trimmed)

\* Rejects without the test of the text: an empty turn goes on to the handler
RejectsBusyOnly(trimmed, busy) == busy

\* Rejects without the busy check
RejectsEmptyOnly(trimmed, busy) == trimmed = <<>>

\* the early return of handleSubmit
Rejects(trimmed, busy) == trimmed = <<>> \/ busy

\* ResumeAvailability that clears the date when it returns to the date step
ResumeAvailabilityClearsDate(cs, result, available) ==
  IF ~result.ok
  THEN [state |-> [cs EXCEPT !.date = NullText, !.step = "askDate"],
        msgs |-> <<Say("fetchFailed")>>]
  ELSE IF Len(available) = 0
  THEN [state |-> [cs EXCEPT !.date = NullText, !.slots = <<>>, !.step = "askDate"],
        msgs |-> <<Say("noSlots")>>]
  ELSE [state |-> [cs EXCEPT !.slots = available, !.step = "selectSlot"],
        msgs |-> <<Say("offerSlots")>>]

\* ResumeAvailability that leaves the step alone when the query fails
ResumeAvailabilityKeepsStep(cs, result, available) ==
  IF ~result.ok
  THEN [state |-> cs, msgs |-> <<Say("fetchFailed")>>]
  ELSE IF Len(available) = 0
  THEN [state |-> [cs EXCEPT !.slots = <<>>, !.step = "askDate"],
        msgs |-> <<Say("noSlots")>>]
  ELSE [state |-> [cs EXCEPT !.slots = available, !.step = "selectSlot"],
        msgs |-> <<Say("offerSlots")>>]

ResumeAvailability(cs, result, available) ==
  IF ~result.ok
  THEN [state |-> [cs EXCEPT !.step = "askDate"], msgs |-> <<Say("fetchFailed")>>]
  ELSE IF Len(available) = 0
  THEN [state |-> [cs EXCEPT !.slots = <<>>, !.step = "askDate"],
        msgs |-> <<Say("noSlots")>>]
  ELSE [state |-> [cs EXCEPT !.slots = available, !.step = "selectSlot"],
        msgs |-> <<Say("offerSlots")>>]

\* ResumeBook that clears the offered slots on failure but keeps the selection
ResumeBookDropsSlots(cs, result) ==
  IF ~result.ok
  THEN [state |-> [cs EXCEPT !.slots = <<>>, !.step = "askDate"],
        msgs |-> <<Say("bookFailed")>>]
  ELSE [state |-> [cs EXCEPT !.bookingId = result.booking_id, !.step = "bookingComplete"],
        msgs |-> <<Msg("bookingConfirmed", result.booking_id, NullText)>>]

\* ResumeBook that resets on failure, as the reschedule and cancel flows do
ResumeBookResets(cs, result) ==
  IF ~result.ok
  THEN [state |-> createInitialState, msgs |-> <<Say("bookFailed")>>]
  ELSE [state |-> [cs EXCEPT !.bookingId = result.booking_id, !.step = "bookingComplete"],
        msgs |-> <<Msg("bookingConfirmed", result.booking_id, NullText)>>]

\* ResumeBook that completes the booking without storing the id it was given
ResumeBookForgetsId(cs, result) ==
  IF ~result.ok
  THEN [state |-> [cs EXCEPT !.step = "askDate"], msgs |-> <<Say("bookFailed")>>]
  ELSE [state |-> [cs EXCEPT !.step = "bookingComplete"],
        msgs |-> <<Msg("bookingConfirmed", result.booking_id, NullText)>>]

ResumeBook(cs, result) ==
  IF ~result.ok
  THEN [state |-> [cs EXCEPT !.step = "askDate"], msgs |-> <<Say("bookFailed")>>]
  ELSE [state |-> [cs EXCEPT !.bookingId = result.booking_id, !.step = "bookingComplete"],
        msgs |-> <<Msg("bookingConfirmed", result.booking_id, NullText)>>]

\* ResumeReschedule that keeps the booking id the user gave after a success
ResumeRescheduleKeepsId(cs, result) ==
  IF ~result.ok
  THEN [state |-> createInitialState, msgs |-> <<Say("rescheduleFailed")>>]
  ELSE [state |-> [cs EXCEPT !.step = "rescheduleComplete"],
        msgs |-> <<Msg("rescheduled", result.booking_id, result.previous_booking_id)>>]

\* ResumeReschedule that steers back to the date step on failure, as booking does
ResumeRescheduleSteersBack(cs, result) ==
  IF ~result.ok
  THEN [state |-> [cs EXCEPT !.step = "askNewDateForReschedule"],
        msgs |-> <<Say("rescheduleFailed")>>]
  ELSE [state |-> [cs EXCEPT !.bookingId = result.booking_id, !.step = "rescheduleComplete"],
        msgs |-> <<Msg("rescheduled", result.booking_id, result.previous_booking_id)>>]

ResumeReschedule(cs, result) ==
  IF ~result.ok
  THEN [state |-> createInitialState, msgs |-> <<Say("rescheduleFailed")>>]
  ELSE [state |-> [cs EXCEPT !.bookingId = result.booking_id, !.step = "rescheduleComplete"],
        msgs |-> <<Msg("rescheduled", result.booking_id, result.previous_booking_id)>>]

ResumeCancel(cs, result) ==
  IF ~result.ok
  THEN [state |-> createInitialState, msgs |-> <<Say("cancelFailed")>>]
  ELSE [state |-> [cs EXCEPT !.bookingId = result.booking_id, !.step = "cancelComplete"],
        msgs |-> <<Msg("cancelled", result.booking_id, NullText)>>]

\* the continuation of a suspended handler once its call has resolved
Resume(call, result) ==
  CASE call.op = "availability" -> ResumeAvailability(call.cs, result, Offered(result.slots))
    [] call.op = "book" -> ResumeBook(call.cs, result)
    [] call.op = "reschedule" -> ResumeReschedule(call.cs, result)
    [] call.op = "cancel" -> ResumeCancel(call.cs, result)

\* the history of the latest availability query: the parameters it sent and
\* what came back
FetchNote(call, result) ==
  IF call.op # "availability" THEN lastFetch
  ELSE [ok |-> result.ok, slots |-> result.slots,
        date |-> AvailabilityParams(call.cs).date,
        type |-> AvailabilityParams(call.cs).appointment_type]

Remove(seq, i) == SubSeq(seq, 1, i - 1) \o SubSeq(seq, i + 1, Len(seq))

\* the longest conversation followed, in accepted turns
MaxTurns == 8

\* the count after a turn that issued `call`: since the page was mounted,
\* and since the conversation state was last reset
Tallied(t, call) ==
  [turns |-> t.turns + 1,
   availability |-> t.availability + (IF call.op = "availability" THEN 1 ELSE 0),
   book |-> t.book + (IF call.op = "book" THEN 1 ELSE 0),
   flowAvailability |-> t.flowAvailability + (IF call.op = "availability" THEN 1 ELSE 0),
   flowBook |-> t.flowBook + (IF call.op = "book" THEN 1 ELSE 0)]

\* the count once `st` has been written: a reset starts the flow counts anew
Restarted(t, st) ==
  IF st = createInitialState
  THEN [t EXCEPT !.flowAvailability = 0, !.flowBook = 0]
  ELSE t

\* no extractor is being called on its own
NoProbe == [text |-> NullText, intent |-> Null]

\* the page as first rendered
Mounted ==
  /\ state = createInitialState
  /\ isBusy = FALSE
  /\ reply = <<Say("greeting")>>
  /\ inflight = <<>>
  /\ lastFetch = [ok |-> FALSE, slots |-> <<>>, date |-> NullText, type |-> Null]
  /\ tally = [turns |-> 0, availability |-> 0, book |-> 0,
              flowAvailability |-> 0, flowBook |-> 0]

Init == Mounted /\ probe = NoProbe

\* an accepted turn: the handler has run up to its return or its first await
Accept(o) ==
  /\ state' = IF o.wrote THEN o.state ELSE state
  /\ reply' = o.msgs
  /\ isBusy' = IF o.call # NoCall THEN TRUE ELSE isBusy
  /\ inflight' = IF o.call # NoCall THEN Append(inflight, o.call) ELSE inflight
  /\ tally' = Restarted(Tallied(tally, o.call), IF o.wrote THEN o.state ELSE state)
  /\ UNCHANGED <<lastFetch, probe>>

\* handleSubmit
Submit(input) ==
  IF Rejects(trim(input), isBusy)
  THEN UNCHANGED vars
  ELSE Accept(Dispatch(state, trim(input)))

\* Resumed without the finally block: the busy flag is cleared on success only
ResumedNoFinally(i, call, result, r) ==
  /\ state' = r.state
  /\ reply' = reply \o r.msgs
  /\ isBusy' = IF result.ok THEN FALSE ELSE isBusy
  /\ inflight' = Remove(inflight, i)
  /\ lastFetch' = FetchNote(call, result)
  /\ tally' = Restarted(tally, r.state)
  /\ UNCHANGED probe

\* the continuation runs: state, message and busy flag are written in one go
Resumed(i, call, result, r) ==
  /\ state' = r.state
  /\ reply' = reply \o r.msgs
  /\ isBusy' = FALSE
  /\ inflight' = Remove(inflight, i)
  /\ lastFetch' = FetchNote(call, result)
  /\ tally' = Restarted(tally, r.state)
  /\ UNCHANGED probe

\* the remote call of the i-th suspended handler resolves with `result`
Settle(i, result) == Resumed(i, inflight[i], result, Resume(inflight[i], result))

\* the service answers (with a success or an error status)
Respond ==
  \E i \in 1..Len(inflight) : \E pattern \in AvailabilityPatterns :
    Settle(i, Response(inflight[i], pattern))

\* fetch rejects: the request never got an answer
NetworkError ==
  \E i \in 1..Len(inflight) : Settle(i, Failed)

Turn == \E input \in Inputs : tally.turns < MaxTurns /\ Submit(input)

Next == Turn \/ Respond \/ NetworkError

Spec == Init /\ [][Next]_vars

----------------------------------------------------------------------------
(* Properties                                                              *)

\* the kind of the latest agent message, "none" if the last turn got no answer
LastSaid == IF reply = <<>> THEN "none" ELSE reply[Len(reply)].kind

BookSteps ==
  {"askType", "askDate", "fetchingSlots", "selectSlot", "askName", "askEmail",
   "askPhone", "askReason", "confirmingBooking", "bookingComplete"}

RescheduleStepSet ==
  {"askBookingIdForReschedule", "askNewDateForReschedule", "askNewTimeForReschedule",
   "rescheduling", "rescheduleComplete"}

CancelStepSet ==
  {"askBookingIdForCancel", "askReasonForCancel", "cancelling", "cancelComplete"}

CompleteSteps == {"bookingComplete", "rescheduleComplete", "cancelComplete"}

\* the steps of the booking flow that come after the slot selection
PastSlotSelection ==
  {"askName", "askEmail", "askPhone", "askReason", "confirmingBooking", "bookingComplete"}

FlowSteps(intent) ==
  CASE intent = "book" -> BookSteps
    [] intent = "reschedule" -> RescheduleStepSet
    [] intent = "cancel" -> CancelStepSet
    [] intent = Null -> {"askIntent"}

\* C1: while a remote call is outstanding the engine is busy and accepts no
\* turn: at most one call is outstanding at any time, the busy flag is set
\* while it is, and the only step that changes anything while a call is
\* outstanding is the resolution of that call (no turn handler reads or
\* writes the conversation state in between).
C1_BusyExcludesTurns ==
  /\ [](Len(inflight) <= 1 /\ (inflight # <<>> => isBusy))
  /\ [][inflight # <<>> => inflight' = <<>>]_vars

\* C1 witness: a remote call is outstanding and the engine is busy
C1_Witness == Len(inflight) = 1 /\ isBusy /\ state.step = "confirmingBooking"

\* C2: intent changes only from unset to a classified intent at the
\* awaiting-intent step, or from a set intent back to unset by a full reset;
\* never from one intent directly to another, whatever the text of the turn.
C2_IntentFixedMidFlow ==
  [][state'.intent # state.intent =>
       \/ state.intent = Null /\ state.step = "askIntent"
       \/ state'.intent = Null /\ state' = createInitialState]_vars

\* C2 witness: a turn containing "cancel" was taken during the booking flow
\* (as the patient's name) and the intent is still Book
C2_Witness ==
  /\ state.intent = "book"
  /\ detectIntent(state.patientName) = "cancel"

\* C3: once a flow has reached its complete step, the next accepted turn is
\* classified for intent and starts a new flow.
C3_RestartAfterComplete ==
  [][\A input \in Inputs :
       (/\ state.step \in CompleteSteps
        /\ ~Rejects(trim(input), isBusy)
        /\ Submit(input))
       => state'.intent = detectIntent(trim(input)) /\ state'.step \notin CompleteSteps]_vars

\* C4: the step belongs to the step sequence of the current intent's flow, an
\* unset intent goes with the awaiting-intent step, and a turn that is not
\* classified is routed to the handler of the current intent.
C4_StepMatchesIntent ==
  /\ state.step \in FlowSteps(state.intent)
  /\ ~Classifies(state) => Route(state) = state.intent

\* C4 witness: the booking flow is back at the resolve-date step after a call
C4_Witness ==
  /\ state.intent = "book"
  /\ state.step = "askDate"
  /\ LastSaid = "bookFailed"

\* C5: a selected slot is an element of the current slots list, and that list
\* is what the latest availability query offered.
C5_SelectedSlotIsFresh ==
  state.selectedSlot # NullSlot =>
    /\ state.selectedSlot \in Range(state.slots)
    /\ lastFetch.ok
    /\ state.slots = Offered(lastFetch.slots)

\* C5 witness: a slot other than the first has just been selected
C5_Witness ==
  /\ state.step = "askName"
  /\ Len(state.slots) >= 2
  /\ state.selectedSlot = state.slots[2]

\* C6: fields are filled in a fixed order: a field is asked for or populated
\* only if all fields earlier in its flow are populated.
C6_FieldsInOrder ==
  /\ state.intent = "book" =>
       /\ (state.step = "askName" \/ ~Falsy(state.patientName)) =>
            /\ state.appointmentType # Null
            /\ ~Falsy(state.date)
            /\ state.selectedSlot # NullSlot
       /\ (state.step = "askEmail" \/ ~Falsy(state.patientEmail)) => ~Falsy(state.patientName)
       /\ (state.step = "askPhone" \/ ~Falsy(state.patientPhone)) => ~Falsy(state.patientEmail)
       /\ (state.step = "askReason" \/ ~Falsy(state.reason)) => ~Falsy(state.patientPhone)
  /\ state.intent = "reschedule" =>
       /\ (state.step = "askNewDateForReschedule" \/ ~Falsy(state.date)) =>
            ~Falsy(state.bookingId)
       /\ state.step = "askNewTimeForReschedule" => ~Falsy(state.date)

\* C7: no confirm step ever finds a required field unset: the "missing
\* information, let's start over" message is never produced.
C7_NoConsistencyFailure ==
  \A i \in 1..Len(reply) : reply[i].kind # "missingInfo"

\* C8: after an availability query that succeeded with no available slot, the
\* booking flow is not past the slot selection until a later query has
\* offered a slot.
C8_EmptyAvailabilityStaysAtDate ==
  (lastFetch.ok /\ Offered(lastFetch.slots) = <<>>) => state.step \notin PastSlotSelection

\* C9: once the booking flow is back at the resolve-date step (no slot that
\* day, or a failed availability or book call), a turn with a parseable date
\* starts a new availability query for that date and the type already held.
C9_NewDateAfterReturn ==
  [][\A input \in Inputs :
       (/\ state.intent = "book"
        /\ state.step = "askDate"
        /\ LastSaid \in {"noSlots", "fetchFailed", "bookFailed"}
        /\ ~Rejects(trim(input), isBusy)
        /\ ~Falsy(normalizeDateFromInput(trim(input)))
        /\ Submit(input))
       => /\ Len(inflight') = 1
          /\ inflight'[1].op = "availability"
          /\ inflight'[1].cs.date = normalizeDateFromInput(trim(input))
          /\ inflight'[1].cs.appointmentType = state.appointmentType]_vars

\* C10: a failed book call leaves step = askDate, intent = Book and the
\* appointment type that was held before the call; the conversation is not
\* reset.
C10_BookFailureKeepsType ==
  [][(/\ inflight # <<>>
      /\ inflight[1].op = "book"
      /\ LastSaid' = "bookFailed")
     => /\ state'.step = "askDate"
        /\ state'.intent = "book"
        /\ state'.appointmentType = state.appointmentType
        /\ state'.appointmentType # Null
        /\ state' # createInitialState]_vars

\* C10 witness: the book call has just failed
C10_Witness ==
  /\ LastSaid = "bookFailed"
  /\ inflight = <<>>
  /\ state.appointmentType = "physical"

\* C11: a failed book call discards the slot that had been selected: in the
\* state it leaves, selectedSlot is unset.
C11_BookFailureDropsSlot ==
  [][(/\ inflight # <<>>
      /\ inflight[1].op = "book"
      /\ LastSaid' = "bookFailed")
     => state'.selectedSlot = NullSlot]_vars

\* C12: a failed reschedule call and a failed cancel call each leave the
\* initial empty state with the busy flag cleared, and the turn accepted next
\* is classified for intent again.
C12_FailureResets ==
  [][/\ (/\ inflight # <<>>
         /\ inflight[1].op \in {"reschedule", "cancel"}
         /\ LastSaid' \in {"rescheduleFailed", "cancelFailed"})
        => /\ state' = createInitialState
           /\ isBusy' = FALSE
           /\ Classifies(state')
     /\ \A input \in Inputs :
          (/\ LastSaid \in {"rescheduleFailed", "cancelFailed"}
           /\ ~Rejects(trim(input), isBusy)
           /\ Submit(input))
          => state'.intent = detectIntent(trim(input))]_vars

\* C12 witness: the reschedule call has just failed
C12_Witness ==
  /\ LastSaid = "rescheduleFailed"
  /\ inflight = <<>>
  /\ state = createInitialState

\* the turn is one where the handler consults an extractor and the extractor
\* finds nothing: the re-prompt the handler owes for it, "none" otherwise
ParseFailure(st, trimmed) ==
  CASE st.intent = "book" /\ st.step = "askDate" /\ Falsy(st.date)
         /\ Falsy(normalizeDateFromInput(trimmed)) -> "badDate"
    [] st.intent = "book" /\ st.step = "selectSlot"
         /\ parseSlotSelection(trimmed, st.slots) = NullSlot -> "badSlot"
    [] st.intent = "reschedule" /\ st.step = "askNewDateForReschedule"
         /\ Falsy(normalizeDateFromInput(trimmed)) -> "badDate"
    [] st.intent = "reschedule" /\ st.step = "askNewTimeForReschedule"
         /\ matchTime(trimmed) = NullText -> "badTime"
    [] OTHER -> "none"

Present(t) == t # NullText /\ t # <<>>

\* the fields a remote call needs are all held by the handler that awaits it
RequiredFieldsHeld(call) ==
  CASE call.op = "availability" ->
         call.cs.appointmentType # Null /\ Present(call.cs.date)
    [] call.op = "book" ->
         /\ call.cs.appointmentType # Null
         /\ Present(call.cs.date)
         /\ call.cs.selectedSlot # NullSlot
         /\ Present(call.cs.patientName)
         /\ Present(call.cs.patientEmail)
         /\ Present(call.cs.patientPhone)
    [] call.op = "reschedule" ->
         /\ Present(call.cs.bookingId)
         /\ Present(call.cs.date)
         /\ Present(call.startTime)
         /\ isValidTime(call.startTime)
    [] call.op = "cancel" -> Present(call.cs.bookingId)
    [] OTHER -> FALSE

\* the booking conversation is at its confirm turn with a required field unset
ConfirmWithMissingField(st) ==
  /\ st.intent = "book"
  /\ st.step = "askReason"
  /\ \/ st.appointmentType = Null
     \/ ~Present(st.date)
     \/ st.selectedSlot = NullSlot
     \/ ~Present(st.patientName)
     \/ ~Present(st.patientEmail)
     \/ ~Present(st.patientPhone)

\* C14: every remote call is issued with its required fields present
\* (availability: type and date; book: type, date, slot, name, email, phone;
\* reschedule: booking id, date and a parsed start time; cancel: a non-empty
\* booking id); a confirm turn with a required field missing issues no remote
\* call and resets the whole conversation.
C14_CallsHaveRequiredFields ==
  /\ [](\A i \in 1..Len(inflight) : RequiredFieldsHeld(inflight[i]))
  /\ [][\A input \in Inputs :
          (/\ ~Rejects(trim(input), isBusy)
           /\ ConfirmWithMissingField(state)
           /\ Submit(input))
          => /\ state' = createInitialState
             /\ inflight' = <<>>
             /\ isBusy' = FALSE]_vars

\* C14 witness: a book call is awaited, and it was issued with every field
C14_Witness ==
  /\ Len(inflight) = 1
  /\ inflight[1].op = "book"
  /\ inflight[1].cs.selectedSlot # NullSlot
  /\ isBusy

\* the positions of the available slots of a response
AvailableAt(response) == {i \in 1..Len(response) : response[i].available}

\* the position in the response of its k-th available slot
KthAvailable(response, k) ==
  CHOOSE i \in AvailableAt(response) :
    Cardinality({j \in AvailableAt(response) : j <= i}) = k

\* C15: the slots retained from a successful availability query are at most
\* five, each is available, and they are the first available slots of the
\* response in the order of the response; the ordinal k typed at slot
\* selection is the k-th retained slot.
C15_RetainedSlots ==
  (state.slots # <<>> \/ LastSaid \in {"offerSlots", "noSlots"})
  => /\ lastFetch.ok
     /\ Len(state.slots) <= 5
     /\ Len(state.slots) =
          IF Cardinality(AvailableAt(lastFetch.slots)) < 5
          THEN Cardinality(AvailableAt(lastFetch.slots)) ELSE 5
     /\ \A k \in 1..Len(state.slots) :
          /\ state.slots[k].available
          /\ state.slots[k] = lastFetch.slots[KthAvailable(lastFetch.slots, k)]
          /\ parseSlotSelection(<<DigitChars[k + 1]>>, state.slots) = state.slots[k]

\* C15 witness: more than five slots came back available and five were retained
C15_Witness ==
  /\ LastSaid = "offerSlots"
  /\ Cardinality(AvailableAt(lastFetch.slots)) > 5
  /\ Len(state.slots) = 5

\* the text, surrounding whitespace removed, is the skip keyword in any case
IsSkipKeyword(text) ==
  /\ Len(trim(text)) = 4
  /\ \A k \in 1..4 : ToLowerChar(trim(text)[k]) = <<"s", "k", "i", "p">>[k]

\* C17: the turns [cancel request, booking id B, reason] with a successful
\* cancel call end at cancelComplete with a final message that shows B; the
\* cancel call carries no reason when the reason turn is the skip keyword
\* (whitespace trimmed, case folded) and the trimmed text otherwise.
C17_CancelFlow ==
  [][/\ \A input \in Inputs :
          (/\ ~Rejects(trim(input), isBusy)
           /\ Submit(input))
          => /\ (Classifies(state) /\ detectIntent(trim(input)) = "cancel")
                => /\ state'.step = "askBookingIdForCancel"
                   /\ inflight' = <<>>
             /\ (state.intent = "cancel" /\ state.step = "askBookingIdForCancel")
                => /\ state'.bookingId = trim(input)
                   /\ state'.step = "askReasonForCancel"
                   /\ inflight' = <<>>
             /\ (state.intent = "cancel" /\ state.step = "askReasonForCancel")
                => /\ Len(inflight') = 1
                   /\ inflight'[1].op = "cancel"
                   /\ inflight'[1].cs.bookingId = state.bookingId
                   /\ inflight'[1].cs.reason =
                        IF IsSkipKeyword(input) THEN NullText ELSE trim(input)
     /\ (/\ inflight # <<>>
         /\ inflight[1].op = "cancel"
         /\ LastSaid' = "cancelled")
        => /\ state'.step = "cancelComplete"
           /\ reply'[Len(reply')].id = inflight[1].cs.bookingId
           /\ reply'[Len(reply')].id = state.bookingId]_vars

\* C17 witness: the cancellation of booking "2" went through, the reason skipped
C17_Witness ==
  /\ state.step = "cancelComplete"
  /\ LastSaid = "cancelled"
  /\ reply[Len(reply)].id = <<"2">>
  /\ state.reason = NullText

\* C18: after a successful reschedule call the step is rescheduleComplete,
\* state.bookingId is the new booking id the call returned, and the previous
\* booking id reported is the one the user supplied at the booking-id step.
C18_RescheduleReplacesId ==
  [][/\ \A input \in Inputs :
          (/\ ~Rejects(trim(input), isBusy)
           /\ state.intent = "reschedule"
           /\ state.step = "askBookingIdForReschedule"
           /\ Submit(input))
          => state'.bookingId = trim(input)
     /\ (/\ inflight # <<>>
         /\ inflight[1].op = "reschedule"
         /\ LastSaid' = "rescheduled")
        => /\ state'.step = "rescheduleComplete"
           /\ state'.bookingId = MockBookingId(inflight[1].cs.date, inflight[1].startTime)
           /\ state'.bookingId = reply'[Len(reply')].id
           /\ reply'[Len(reply')].prev = state.bookingId]_vars

\* C18 witness: booking "2" was rescheduled and a new identifier is held
C18_Witness ==
  /\ state.step = "rescheduleComplete"
  /\ LastSaid = "rescheduled"
  /\ reply[Len(reply)].prev = <<"2">>
  /\ state.bookingId # <<"2">>

\* C19: in the cancel and reschedule flows the booking id, once captured, stays
\* what it is until the conversation is reset, except that a successful
\* reschedule replaces it with the new id; the response of a cancel call
\* does not change it.
C19_BookingIdKept ==
  [][/\ (/\ state.intent \in {"cancel", "reschedule"}
         /\ Present(state.bookingId)
         /\ state'.bookingId # state.bookingId)
        => \/ state' = createInitialState
           \/ /\ inflight # <<>>
              /\ inflight[1].op = "reschedule"
              /\ LastSaid' = "rescheduled"
              /\ state'.step = "rescheduleComplete"
     /\ (/\ inflight # <<>>
         /\ inflight[1].op = "cancel"
         /\ LastSaid' = "cancelled")
        => /\ Present(state.bookingId)
           /\ state'.bookingId = state.bookingId]_vars

\* C19 witness: the cancel call has answered and the booking id captured from
\* the user is still held
C19_Witness ==
  /\ state.intent = "cancel"
  /\ LastSaid = "cancelled"
  /\ state.bookingId = <<"c", "a", "n", "c", "e", "l", " ", "m", "y", " ", "a", "p", "p", "o", "i", "n", "t", "m", "e", "n", "t">>

----------------------------------------------------------------------------
(* The booking conversation of the README, turn by turn                    *)

\* what the k-th turn of the booking conversation has to be: a booking request
\* that names a type, a date that parses, the ordinal of an offered slot, then
\* name, email, phone and reason (any text)
BookingScript(k, st, trimmed) ==
  CASE k = 1 -> /\ detectIntent(trimmed) = "book"
                /\ detectAppointmentType(trimmed) # Null
    [] k = 2 -> ~Falsy(normalizeDateFromInput(trimmed))
    [] k = 3 -> /\ IsNumeric(trimmed)
                /\ NumberOf(trimmed) \in 1..Len(st.slots)
    [] OTHER -> TRUE

\* the user types the next turn of the booking conversation
ScriptTurn ==
  \E input \in Inputs :
    /\ tally.turns < 7
    /\ ~Rejects(trim(input), isBusy)
    /\ BookingScript(tally.turns + 1, state, trim(input))
    /\ Submit(input)

\* the call succeeds, and an availability answer has a slot to offer
ScriptAnswer(call, result) ==
  /\ result.ok
  /\ call.op = "availability" => AvailableAt(result.slots) # {}
  /\ Settle(1, result)

ScriptRespond ==
  \E pattern \in AvailabilityPatterns :
    /\ inflight # <<>>
    /\ ScriptAnswer(inflight[1], Response(inflight[1], pattern))

NextBooking == ScriptTurn \/ ScriptRespond

SpecBooking == Init /\ [][NextBooking]_vars

\* the step the booking conversation is at after k accepted turns
ScriptStep(k, busy) ==
  CASE k = 0 -> "askIntent"
    [] k = 1 -> "askDate"
    [] k = 2 -> IF busy THEN "fetchingSlots" ELSE "selectSlot"
    [] k = 3 -> "askName"
    [] k = 4 -> "askEmail"
    [] k = 5 -> "askPhone"
    [] k = 6 -> "askReason"
    [] OTHER -> IF busy THEN "confirmingBooking" ELSE "bookingComplete"

\* C16: the turns [booking request naming a type, parseable date, valid slot
\* ordinal, name, email, phone, reason], with an availability answer that has
\* an available slot and a book call that succeeds, reach bookingComplete after
\* exactly seven turns; state.bookingId is then the id the book call returned,
\* and exactly one availability query and one book call have been issued.
C16_BookingEndToEnd ==
  /\ tally.turns <= 7
  /\ state.step = ScriptStep(tally.turns, isBusy)
  /\ isBusy <=> inflight # <<>>
  /\ tally.availability = (IF tally.turns >= 2 THEN 1 ELSE 0)
  /\ tally.book = (IF tally.turns >= 7 THEN 1 ELSE 0)
  /\ state.step = "bookingComplete"
     => /\ tally.turns = 7
        /\ LastSaid = "bookingConfirmed"
        /\ state.bookingId = reply[Len(reply)].id
        /\ state.bookingId = MockBookingId(state.date, state.selectedSlot.start_time)
        /\ tally.availability = 1
        /\ tally.book = 1

\* C16 witness: the seventh turn has been answered and the booking is complete
C16_Witness ==
  /\ tally.turns = 7
  /\ state.step = "bookingComplete"
  /\ Present(state.bookingId)
  /\ tally.availability = 1
  /\ tally.book = 1

----------------------------------------------------------------------------
(* The intent classifier on its own                                        *)

\* the pieces the classified texts are made of: the two tokens in mixed case,
\* halves of them, and words around them
Fragments ==
  { <<"R", "e", "S", "c", "h", "e", "d", "u", "l">>,
    <<"r", "e", "s", "c", "h">>,
    <<"E", "D", "U", "L", "E">>,
    <<"C", "A", "N", "C", "E", "L">>,
    <<"c", "a", "n">>,
    <<"c", "e", "l">>,
    <<" ">>,
    <<"b", "o", "o", "k", " ", "i", "t">> }

\* the most pieces in a text
MaxFragments == 3

RECURSIVE Concat(_)
Concat(pieces) ==
  IF pieces = <<>> THEN <<>> ELSE Head(pieces) \o Concat(Tail(pieces))

Texts ==
  UNION { {Concat(pieces) : pieces \in [1..n -> Fragments]} : n \in 0..MaxFragments }

InitClassify ==
  /\ Mounted
  /\ probe \in {[text |-> t, intent |-> Null] : t \in Texts}

\* detectIntent is called with the text
Classify ==
  /\ probe.intent = Null
  /\ probe' = [probe EXCEPT !.intent = detectIntent(probe.text)]
  /\ UNCHANGED <<state, isBusy, reply, inflight, lastFetch, tally>>

NextClassify == Classify

SpecClassify == InitClassify /\ [][NextClassify]_vars

\* the two characters are the same letter, whatever their case
SameLetter(c, d) ==
  \/ c = d
  \/ \E j \in 1..Len(UpperChars) : {c, d} = {UpperChars[j], LowerChars[j]}

\* the token occurs somewhere in the text, in any case
HasToken(text, token) ==
  \E i \in 1..Len(text) :
    /\ i + Len(token) - 1 <= Len(text)
    /\ \A k \in 1..Len(token) : SameLetter(text[i + k - 1], token[k])

\* C20: detectIntent answers for every text, and always the same for the same
\* text: Reschedule when the text holds the reschedule token in any case and
\* among any words, even if it holds the cancel token too; otherwise Cancel
\* when it holds the cancel token; otherwise Book. It never answers unset.
C20_IntentClassification ==
  probe.intent # Null
  => /\ probe.intent \in {"book", "reschedule", "cancel"}
     /\ probe.intent = detectIntent(probe.text)
     /\ probe.intent =
          IF HasToken(probe.text, <<"r", "e", "s", "c", "h", "e", "d", "u", "l">>)
          THEN "reschedule"
          ELSE IF HasToken(probe.text, <<"c", "a", "n", "c", "e", "l">>)
          THEN "cancel"
          ELSE "book"

\* C20 witness: a text with both tokens, in capitals, was classified Reschedule
C20_Witness ==
  /\ probe.intent = "reschedule"
  /\ HasToken(probe.text, <<"c", "a", "n", "c", "e", "l">>)
  /\ probe.text # toLowerCase(probe.text)

----------------------------------------------------------------------------
(* The slot-selection extractor on its own                                 *)

\* the texts handed to parseSlotSelection, each with the time literal the
\* regular expression finds in it first, zero-padded (NullText: none)
SelectionTexts ==
  { [text |-> <<"0">>, time |-> NullText],
    [text |-> <<"1">>, time |-> NullText],
    [text |-> <<"3">>, time |-> NullText],
    [text |-> <<"4">>, time |-> NullText],
    [text |-> <<" ", "2", " ">>, time |-> NullText],
    [text |-> <<"t", "w", "o">>, time |-> NullText],
    [text |-> <<"9", ":", "4", "5">>, time |-> <<"0", "9", ":", "4", "5">>],
    [text |-> <<"a", "t", " ", "0", "9", ":", "0", "0", " ", "p", "l", "e", "a", "s", "e">>,
     time |-> <<"0", "9", ":", "0", "0">>],
    [text |-> <<"1", " ", "9", ":", "4", "5">>, time |-> <<"0", "9", ":", "4", "5">>],
    [text |-> <<"9", ":", "4", "5", " ", "o", "r", " ", "0", "9", ":", "0", "0">>,
     time |-> <<"0", "9", ":", "4", "5">>],
    [text |-> <<"1", "0", ":", "3", "0", "p", "m">>, time |-> NullText],
    [text |-> <<"2", "4", ":", "0", "0">>, time |-> NullText] }

\* the slots the lists are made of
SlotChoices ==
  { [start_time |-> t, end_time |-> <<"1", "0", ":", "3", "0">>, available |-> a] :
      t \in {<<"0", "9", ":", "0", "0">>, <<"0", "9", ":", "4", "5">>}, a \in BOOLEAN }

\* the longest slot list
MaxListed == 3

SlotLists == UNION { [1..n -> SlotChoices] : n \in 0..MaxListed }

InitSelect ==
  /\ Mounted
  /\ probe \in {[text |-> t.text, time |-> t.time, slots |-> s, done |-> FALSE, slot |-> NullSlot] :
                  t \in SelectionTexts, s \in SlotLists}

\* parseSlotSelection is called with the text and the list
Select ==
  /\ ~probe.done
  /\ probe' = [probe EXCEPT !.done = TRUE,
                            !.slot = parseSlotSelection(probe.text, probe.slots)]
  /\ UNCHANGED <<state, isBusy, reply, inflight, lastFetch, tally>>

NextSelect == Select

SpecSelect == InitSelect /\ [][NextSelect]_vars

\* the positions of the list whose slot starts at `time` and is available
StartsAt(slots, time) ==
  {i \in 1..Len(slots) : slots[i].start_time = time /\ slots[i].available}

\* C21: parseSlotSelection answers slots[N-1] for a purely numeric trimmed text
\* N with 1 <= N <= |slots| and absent for N = 0 or N > |slots|; for a
\* non-numeric text with a time literal it answers the slot that starts at the
\* zero-padded literal and is available, absent if there is none; it answers
\* absent for an empty list; the numeric reading comes first.
C21_SlotSelection ==
  probe.done
  => /\ probe.slots = <<>> => probe.slot = NullSlot
     /\ (probe.slots # <<>> /\ IsNumeric(trim(probe.text)))
        => /\ NumberOf(trim(probe.text)) \in 1..Len(probe.slots)
              => probe.slot = probe.slots[NumberOf(trim(probe.text))]
           /\ NumberOf(trim(probe.text)) \notin 1..Len(probe.slots)
              => probe.slot = NullSlot
     /\ (probe.slots # <<>> /\ ~IsNumeric(trim(probe.text)) /\ probe.time # NullText)
        => /\ StartsAt(probe.slots, probe.time) = {} => probe.slot = NullSlot
           /\ StartsAt(probe.slots, probe.time) # {}
              => /\ probe.slot.start_time = probe.time
                 /\ probe.slot.available
                 /\ \E i \in StartsAt(probe.slots, probe.time) : probe.slot = probe.slots[i]
     /\ (~IsNumeric(trim(probe.text)) /\ probe.time = NullText) => probe.slot = NullSlot

\* C21 witness: the ordinal 3 picked the third slot, one that is not available
C21_Witness ==
  /\ probe.done
  /\ probe.text = <<"3">>
  /\ Len(probe.slots) = 3
  /\ probe.slot = probe.slots[3]
  /\ ~probe.slot.available

\* the messages of the error paths: a parse failure, a failed remote call, a
\* reset by the check of the required fields
ErrorKinds ==
  {"badDate", "badSlot", "badTime", "askBookingIdAgain", "missingInfo",
   "fetchFailed", "bookFailed", "rescheduleFailed", "cancelFailed"}

\* C22: no error is fatal: a step that ends in an error message (a parse
\* failure, the failure of any of the four remote calls, a reset by the
\* consistency check) leaves no call outstanding and the busy flag cleared,
\* and the next turn submitted with some text is accepted.
C22_NoErrorIsFatal ==
  [][/\ LastSaid' \in ErrorKinds
        => /\ isBusy' = FALSE
           /\ inflight' = <<>>
           /\ \A input \in Inputs : trim(input) # <<>> => ~Rejects(trim(input), isBusy')
     /\ \A input \in Inputs :
          (/\ LastSaid \in ErrorKinds
           /\ trim(input) # <<>>
           /\ Submit(input))
          => tally'.turns = tally.turns + 1]_vars

\* C22 witness: the availability query has failed and the page is idle again
C22_Witness ==
  /\ LastSaid = "fetchFailed"
  /\ ~isBusy
  /\ inflight = <<>>
  /\ state.step = "askDate"

\* C23: every accepted turn gets an agent message: the handler appends one
\* before it returns, or it issues a remote call and appends one when the call
\* has resolved.
C23_EveryTurnAnswered ==
  [][/\ \A input \in Inputs :
          (~Rejects(trim(input), isBusy) /\ Submit(input))
          => (reply' # <<>> \/ inflight' # <<>>)
     /\ Len(inflight') < Len(inflight) => Len(reply') > Len(reply)]_vars

\* the steps at which the reschedule and the cancel flow collect the booking id
CollectIdSteps == {"askBookingIdForReschedule", "askBookingIdForCancel"}

\* C24 as stated: at the collect-booking-id step of the reschedule flow (and
\* of the cancel flow) a turn whose trimmed text is empty leaves the state
\* unchanged and gets the message that asks for the booking id again.
C24_EmptyIdReprompted ==
  (state.step \in CollectIdSteps /\ ~isBusy)
  => \A input \in Inputs :
       trim(input) = <<>>
       => /\ ~Rejects(trim(input), isBusy)
          /\ ~Dispatch(state, trim(input)).wrote
          /\ Dispatch(state, trim(input)).msgs = <<Say("askBookingIdAgain")>>

\* C24 as the code has it: a turn whose trimmed text is empty is dropped by
\* handleSubmit before any handler runs, at the collect-booking-id steps as
\* anywhere else: the state is unchanged and no message is produced, so the
\* message that asks for the booking id again is never shown.
C24_EmptyIdIgnored ==
  /\ LastSaid # "askBookingIdAgain"
  /\ state.step \in CollectIdSteps
     => \A input \in Inputs : trim(input) = <<>> => Rejects(trim(input), isBusy)

\* C24 witness: the reschedule flow waits for the booking id and a turn of
\* blanks can be submitted
C24_Witness ==
  /\ state.step = "askBookingIdForReschedule"
  /\ ~isBusy
  /\ LastSaid = "askBookingId"
  /\ \E input \in Inputs : input # <<>> /\ trim(input) = <<>>

\* the text holds a booking identifier of the service: APPT-...
MentionsBookingId(text) == includes(text, <<"A", "P", "P", "T", "-">>)

\* C25: when the first turn of a conversation is a cancel request that already
\* holds the booking id, the agent's next message asks for the optional reason
\* (the id is held, the step is the reason step), so that the following turn
\* is taken as the reason and the cancellation is confirmed with that id.
C25_CancelWithIdInFirstTurn ==
  [][\A input \in Inputs :
       (/\ ~Rejects(trim(input), isBusy)
        /\ Classifies(state)
        /\ detectIntent(trim(input)) = "cancel"
        /\ MentionsBookingId(trim(input))
        /\ Submit(input))
       => /\ state'.step = "askReasonForCancel"
          /\ LastSaid' = "askCancelReason"
          /\ Present(state'.bookingId)
          /\ includes(trim(input), state'.bookingId)]_vars

\* the catalog entry the text names, in any case, Null if it names none
NamedType(text) ==
  IF HasToken(text, <<"f", "o", "l", "l", "o", "w">>) THEN "followup"
  ELSE IF HasToken(text, <<"p", "h", "y", "s", "i", "c", "a", "l">>) THEN "physical"
  ELSE IF HasToken(text, <<"s", "p", "e", "c", "i", "a", "l", "i", "s", "t">>) THEN "specialist"
  ELSE IF \/ HasToken(text, <<"c", "o", "n", "s", "u", "l", "t">>)
          \/ HasToken(text, <<"g", "e", "n", "e", "r", "a", "l">>)
          \/ HasToken(text, <<"c", "h", "e", "c", "k", "u", "p">>)
          \/ HasToken(text, <<"c", "h", "e", "c", "k", "-", "u", "p">>)
  THEN "consultation"
  ELSE Null

\* C26: the first turn classified as Book has its appointment type resolved
\* from the same turn: if it names a type, the state after it holds that type
\* and the step is the date step; otherwise the agent asks for one of the four
\* catalog entries, and as long as the type is unset the booking flow stays at
\* the type step with the date unset and no remote call issued, whatever turns
\* follow.
C26_TypeResolvedFirst ==
  /\ [](state.intent = "book" /\ state.appointmentType = Null
        => /\ state.step = "askType"
           /\ Falsy(state.date)
           /\ inflight = <<>>
           /\ LastSaid = "askType")
  /\ [][\A input \in Inputs :
          (/\ ~Rejects(trim(input), isBusy)
           /\ \/ Classifies(state) /\ detectIntent(trim(input)) = "book"
              \/ state.intent = "book" /\ state.appointmentType = Null
           /\ Submit(input))
          => /\ state'.intent = "book"
             /\ state'.appointmentType = NamedType(trim(input))
             /\ state'.step = IF NamedType(trim(input)) = Null THEN "askType" ELSE "askDate"
             /\ LastSaid' = state'.step
             /\ Falsy(state'.date)
             /\ inflight' = <<>>]_vars

\* C26 witness: three turns in, the booking flow still waits for a type
C26_Witness ==
  /\ state.intent = "book"
  /\ state.appointmentType = Null
  /\ state.step = "askType"
  /\ tally.turns >= 3
  /\ inflight = <<>>

----------------------------------------------------------------------------
(* The availability route on its own: the slots of a whole day             *)

\* the key of an appointment type, as the characters the hash reads
TypeKey(type) ==
  CASE type = "consultation" -> <<"c", "o", "n", "s", "u", "l", "t", "a", "t", "i", "o", "n">>
    [] type = "followup" -> <<"f", "o", "l", "l", "o", "w", "u", "p">>
    [] type = "physical" -> <<"p", "h", "y", "s", "i", "c", "a", "l">>
    [] type = "specialist" -> <<"s", "p", "e", "c", "i", "a", "l", "i", "s", "t">>

\* charCodeAt for the characters of a hash source: digits, "-", small letters
CharCode(c) ==
  IF IsDigit(c) THEN 48 + DigitValue(c)
  ELSE IF c = "-" THEN 45
  ELSE 96 + (CHOOSE i \in 1..Len(LowerChars) : LowerChars[i] = c)

\* String(i)
IndexText(i) == IF i < 10 THEN <<DigitChars[i + 1]>> ELSE TwoDigits(i)

\* (hash * 31 + code) >>> 0, the 32-bit hash kept as two 16-bit halves
HashStep(h, code) ==
  [lo |-> (h.lo * 31 + code) % 65536,
   hi |-> (h.hi * 31 + (h.lo * 31 + code) \div 65536) % 65536]

RECURSIVE HashOf(_)
HashOf(source) ==
  IF source = <<>> THEN [lo |-> 0, hi |-> 0]
  ELSE HashStep(HashOf(SubSeq(source, 1, Len(source) - 1)), CharCode(source[Len(source)]))

\* hash % 3 !== 0, with 65536 % 3 = 1
HashAvailable(date, type, i) ==
  LET h == HashOf(date \o <<"-">> \o TypeKey(type) \o <<"-">> \o IndexText(i))
  IN  (h.hi + h.lo) % 3 # 0

\* SlotCount that rounds up: a last slot is cut by the end of the day
SlotCountCeiling(type) == (8 * 60 + DurationMinutes(type) - 1) \div DurationMinutes(type)

\* Math.floor(totalMinutes / durationMinutes)
SlotCount(type) == (8 * 60) \div DurationMinutes(type)

\* generateSlots, every slot of the day with the flag the hash gives it
AllSlots(date, type) ==
  [k \in 1..SlotCount(type) |->
     [start_time |-> TimeText(9 * 60 + (k - 1) * DurationMinutes(type)),
      end_time   |-> TimeText(9 * 60 + k * DurationMinutes(type)),
      available  |-> HashAvailable(date, type, k - 1)]]

\* the days of March 2024 queried
MaxDay == 10

GridDates == {<<"2", "0", "2", "4", "-", "0", "3", "-">> \o TwoDigits(d) : d \in 1..MaxDay}

InitGrid ==
  /\ Mounted
  /\ probe \in {[date |-> d, type |-> t, answers |-> <<>>] :
                  d \in GridDates, t \in Range(APPOINTMENT_TYPES)}

\* GET /api/calendly/availability?date=...&appointment_type=..., asked twice
Query ==
  /\ Len(probe.answers) < 2
  /\ isValidDate(probe.date)
  /\ probe' = [probe EXCEPT !.answers = Append(@, AllSlots(probe.date, probe.type))]
  /\ UNCHANGED <<state, isBusy, reply, inflight, lastFetch, tally>>

NextGrid == Query

SpecGrid == InitGrid /\ [][NextGrid]_vars

\* the text is a zero-padded HH:mm
IsClockText(t) ==
  /\ Len(t) = 5
  /\ t[3] = ":"
  /\ \A k \in {1, 2, 4, 5} : IsDigit(t[k])
  /\ NumberOf(SubSeq(t, 1, 2)) < 24
  /\ NumberOf(SubSeq(t, 4, 5)) < 60

\* the minute of the day an HH:mm text names
MinuteOfDay(t) == NumberOf(SubSeq(t, 1, 2)) * 60 + NumberOf(SubSeq(t, 4, 5))

\* the duration of each catalog entry, and the slots of its day
CatalogDuration ==
  [consultation |-> 30, followup |-> 15, physical |-> 45, specialist |-> 60]

CatalogSlots ==
  [consultation |-> 16, followup |-> 32, physical |-> 10, specialist |-> 8]

\* C27: for a valid date and each of the four types (30, 15, 45 and 60
\* minutes) the availability route divides 09:00-17:00 into floor(480 /
\* duration) slots: slot i starts at 09:00 + i * duration and ends duration
\* minutes later, consecutive slots touch without overlapping, the first
\* starts at 09:00, none ends after 17:00, every time is a zero-padded HH:mm;
\* the same date and type always give the same availability flags.
C27_SlotGrid ==
  /\ \A a \in 1..Len(probe.answers) :
       LET slots == probe.answers[a]
           duration == CatalogDuration[probe.type]
       IN  /\ Len(slots) = CatalogSlots[probe.type]
           /\ Len(slots) * duration <= 480
           /\ (Len(slots) + 1) * duration > 480
           /\ slots[1].start_time = <<"0", "9", ":", "0", "0">>
           /\ \A k \in 1..Len(slots) :
                /\ IsClockText(slots[k].start_time)
                /\ IsClockText(slots[k].end_time)
                /\ MinuteOfDay(slots[k].start_time) = 540 + (k - 1) * duration
                /\ MinuteOfDay(slots[k].end_time) = MinuteOfDay(slots[k].start_time) + duration
                /\ MinuteOfDay(slots[k].end_time) <= 17 * 60
                /\ slots[k].available \in BOOLEAN
                /\ k < Len(slots) => slots[k + 1].start_time = slots[k].end_time
  /\ Len(probe.answers) = 2 => probe.answers[1] = probe.answers[2]

\* C27 witness: 2 March 2024 was asked twice for a physical exam and gave ten
\* slots both times, the third, sixth and ninth taken
C27_Witness ==
  /\ Len(probe.answers) = 2
  /\ probe.type = "physical"
  /\ probe.date = <<"2", "0", "2", "4", "-", "0", "3", "-", "0", "2">>
  /\ Len(probe.answers[2]) = 10
  /\ {k \in 1..10 : ~probe.answers[2][k].available} = {3, 6, 9}

----------------------------------------------------------------------------
(* The book route on its own: a sequence of requests                       *)

\* the bodies posted to the book route: two start times on one day for two
\* types, and a body without a start time
BookRequests ==
  { [createInitialState EXCEPT
       !.appointmentType = type,
       !.date = <<"2", "0", "2", "4", "-", "0", "3", "-", "0", "1">>,
       !.selectedSlot = [start_time |-> start,
                         end_time |-> <<"1", "0", ":", "0", "0">>,
                         available |-> TRUE],
       !.patientName = <<"A">>,
       !.patientEmail = <<"a", "@", "b">>,
       !.patientPhone = <<"1">>] :
      type \in {"consultation", "specialist"},
      start \in {<<"0", "9", ":", "0", "0">>, <<"0", "9", ":", "3", "0">>, NullText} }

\* the most requests followed
MaxRequests == 3

InitBooked == Mounted /\ probe = <<>>

\* POST /api/calendly/book: the route keeps nothing from one request to the next
PostBook ==
  \E request \in BookRequests :
    /\ Len(probe) < MaxRequests
    /\ probe' = Append(probe, [request |-> request, response |-> BookRoute(BookBody(request))])
    /\ UNCHANGED <<state, isBusy, reply, inflight, lastFetch, tally>>

NextBooked == PostBook

SpecBooked == InitBooked /\ [][NextBooked]_vars

\* C28: the service itself prevents double-booking: of the requests answered
\* so far, no two that were confirmed are for the same appointment type, date
\* and start time.
C28_NoDoubleBooking ==
  \A i, j \in 1..Len(probe) :
    (/\ i < j
     /\ probe[i].response.ok
     /\ probe[j].response.ok)
    => <<probe[i].request.appointmentType, probe[i].request.date,
         probe[i].request.selectedSlot.start_time>>
       # <<probe[j].request.appointmentType, probe[j].request.date,
           probe[j].request.selectedSlot.start_time>>

\* the steps held while a remote call is outstanding
InFlightSteps == {"fetchingSlots", "confirmingBooking", "rescheduling", "cancelling"}

\* C29: the busy flag and the step agree: the page is busy exactly when the
\* step is one of the four in-flight steps, which is exactly when a call is
\* outstanding; a state in which a turn can be accepted has no in-flight step.
C29_BusyMatchesStep ==
  /\ isBusy <=> state.step \in InFlightSteps
  /\ isBusy <=> inflight # <<>>
  /\ \A input \in Inputs :
       ~Rejects(trim(input), isBusy) => state.step \notin InFlightSteps

\* C29 witness: the reschedule call is outstanding
C29_Witness ==
  /\ isBusy
  /\ state.step = "rescheduling"
  /\ Len(inflight) = 1
  /\ inflight[1].op = "reschedule"

----------------------------------------------------------------------------
(* The book request against the availability query                         *)

\* the start times the latest availability response marked available
AvailableStarts ==
  { lastFetch.slots[k].start_time : k \in AvailableAt(lastFetch.slots) }

\* C31: every book request the engine issues carries the date and the
\* appointment type that were sent in the availability query whose response
\* supplied the selected slot, and the start time of a slot that this
\* response marked available.
C31_BookMatchesQuery ==
  \A i \in 1..Len(inflight) :
    inflight[i].op = "book"
    => /\ lastFetch.ok
       /\ inflight[i].cs.slots = Offered(lastFetch.slots)
       /\ \E k \in 1..Len(inflight[i].cs.slots) :
            inflight[i].cs.selectedSlot = inflight[i].cs.slots[k]
       /\ BookBody(inflight[i].cs).date = lastFetch.date
       /\ BookBody(inflight[i].cs).appointment_type = lastFetch.type
       /\ BookBody(inflight[i].cs).start_time \in AvailableStarts

\* a book request is in flight for the second slot of a response that marked
\* only every other slot available
C31_Witness ==
  /\ Len(inflight) = 1
  /\ inflight[1].op = "book"
  /\ \E k \in 1..Len(lastFetch.slots) : ~lastFetch.slots[k].available
  /\ BookBody(inflight[1].cs).start_time = lastFetch.slots[4].start_time
  /\ BookBody(inflight[1].cs).date = TomorrowISO

----------------------------------------------------------------------------
(* The defensive resets of the reschedule and cancel flows                 *)

\* whether the next turn is handled by handleRescheduleFlow or handleCancelFlow
RoutedToChange(st) == ~Classifies(st) /\ Route(st) \in {"reschedule", "cancel"}

\* C32: in the reschedule and cancel flows the 'missing information' reset
\* branches are unreachable: in every reachable state with the step
\* askNewDateForReschedule or askNewTimeForReschedule the bookingId is held
\* (and at askNewTimeForReschedule the date too), in every reachable state
\* with the step askReasonForCancel the bookingId is held, and no turn either
\* handler would accept ends in the 'missing information' message.
C32_DefensiveResetsUnreachable ==
  /\ state.step \in {"askNewDateForReschedule", "askNewTimeForReschedule"}
     => Present(state.bookingId)
  /\ state.step = "askNewTimeForReschedule" => Present(state.date)
  /\ state.step = "askReasonForCancel" => Present(state.bookingId)
  /\ RoutedToChange(state)
     => \A input \in Inputs :
          ~Rejects(trim(input), FALSE)
          => Say("missingInfo") \notin Range(Dispatch(state, trim(input)).msgs)

\* the time turn has run at askNewTimeForReschedule and kept the booking id
\* and the date
C32_Witness ==
  /\ state.step = "askNewTimeForReschedule"
  /\ LastSaid = "badTime"
  /\ Present(state.bookingId)
  /\ Present(state.date)

====
